---- MODULE Spec2Model ----
(***************************************************************************)
(* Model of the two Node.js resolve hooks of node-resolve-ts:              *)
(*   src/resolve-ts.js     the error-recovery hook (native first, then a   *)
(*                         single rewritten extension); names prefixed RT_ *)
(*   src/unnamed/part_001  the candidate-first hook with initialize() and  *)
(*                         resolveFileWithExtensions(); unprefixed names   *)
(*                                                                         *)
(* JavaScript strings are sequences of tokens; a token stands for a run of *)
(* characters ("file://", "/", a name, an extension with its dot).  The    *)
(* library conversions (extname, dirname, path.resolve, pathToFileURL,     *)
(* URL.pathname, String.replace) are computed on those sequences.          *)
(***************************************************************************)
EXTENDS Naturals, Sequences, FiniteSets, TLC

VARIABLES
    extensionMap,    \* part_001: module-level `let extensionMap`
    fs,              \* the host file system: path -> "none" | "file" | "dir"
    hook,            \* which module's resolve handles the call in flight
    pc,              \* position of the call in flight
    specifier,       \* resolve's first argument
    parentURL,       \* context.parentURL
    native,          \* what nextResolve(specifier, context) settles to
    nextCalls,       \* how many times nextResolve was invoked by this call
    failedSpecifier, \* the local of the catch block
    extensions,      \* resolveFileWithExtensions: the `extensions` argument
    base,            \* resolveFileWithExtensions: resolvedPathWithoutExt
    candidates,      \* the stat promises: index -> "pending" | "none" | "file" | "dir"
    order,           \* indices of the stat promises in the order they settled
    probes,          \* every stat issued by this call: [path, afterNext]
    outcome          \* what resolve settled to

vars == <<extensionMap, fs, hook, pc, specifier, parentURL, native, nextCalls,
          failedSpecifier, extensions, base, candidates, order, probes, outcome>>

-----------------------------------------------------------------------------
(* JavaScript values *)

\* `undefined` where a string is expected
Undefined == <<"<undefined>">>

\* String(undefined), as produced by `str + undefined`
UndefinedText == <<"undefined">>

EXT_TOKENS == {".js", ".ts", ".mjs", ".mts", ".cjs", ".cts", ".json"}

\* the process working directory, against which relative paths resolve
Cwd == <<"/", "p">>

-----------------------------------------------------------------------------
(* node:path and node:url *)

\* index of the last "/" of s, 0 when there is none
LastSlash(s) ==
    LET idx == {i \in 1..Len(s) : s[i] = "/"}
    IN  IF idx = {} THEN 0 ELSE CHOOSE i \in idx : \A j \in idx : j <= i

\* path.extname: from the last dot of the last component, unless that dot
\* starts the component
extname(p) ==
    LET from == LastSlash(p) + 1
        comp == SubSeq(p, from, Len(p))
        dots == {i \in 1..Len(comp) : comp[i] \in EXT_TOKENS}
    IN  IF dots = {} THEN <<>>
        ELSE LET d == CHOOSE i \in dots : \A j \in dots : j <= i
             IN  IF d = 1 THEN <<>> ELSE SubSeq(comp, d, Len(comp))

\* String.prototype.slice(0, n)
slice(s, n) == SubSeq(s, 1, n)

\* String.prototype.startsWith
startsWith(s, prefix) ==
    /\ Len(s) >= Len(prefix)
    /\ SubSeq(s, 1, Len(prefix)) = prefix

\* path.dirname
dirname(p) ==
    LET i == LastSlash(p)
    IN  IF i = 0 THEN <<".">>
        ELSE IF i = 1 THEN <<"/">>
        ELSE SubSeq(p, 1, i - 1)

isAbsolute(p) == Len(p) > 0 /\ p[1] = "/"

RECURSIVE splitPath(_, _, _)
\* the components of s between its "/" separators, from position i on
splitPath(s, i, cur) ==
    IF i > Len(s) THEN <<cur>>
    ELSE IF s[i] = "/" THEN <<cur>> \o splitPath(s, i + 1, <<>>)
    ELSE splitPath(s, i + 1, Append(cur, s[i]))

RECURSIVE normalizeParts(_, _)
\* drops empty and "." components, lets ".." remove its predecessor
normalizeParts(parts, acc) ==
    IF parts = <<>> THEN acc
    ELSE LET h == Head(parts)
         IN  IF Len(h) = 0 \/ h = <<".">>
             THEN normalizeParts(Tail(parts), acc)
             ELSE IF h = <<"..">>
             THEN normalizeParts(Tail(parts),
                                 IF Len(acc) = 0 THEN acc
                                 ELSE SubSeq(acc, 1, Len(acc) - 1))
             ELSE normalizeParts(Tail(parts), Append(acc, h))

RECURSIVE joinParts(_)
joinParts(parts) ==
    IF parts = <<>> THEN <<>>
    ELSE <<"/">> \o Head(parts) \o joinParts(Tail(parts))

\* path.resolve(from, to): the absolute, normalized path
resolvePath(from, to) ==
    LET joined == IF isAbsolute(to) THEN to
                  ELSE IF isAbsolute(from) THEN from \o <<"/">> \o to
                  ELSE Cwd \o <<"/">> \o from \o <<"/">> \o to
        parts  == normalizeParts(splitPath(joined, 1, <<>>), <<>>)
    IN  IF parts = <<>> THEN <<"/">> ELSE joinParts(parts)

\* percent-encoding of one token, as the URL serializer writes it
encodeToken(t) ==
    CASE t = "a b"   -> "a%20b"
      [] t = "a%20b" -> "a%2520b"
      [] OTHER       -> t

\* percent-decoding of one token
decodeToken(t) ==
    CASE t = "a%20b"   -> "a b"
      [] t = "a%2520b" -> "a%20b"
      [] OTHER         -> t

\* url.pathToFileURL(p).href
pathToFileURL(p) ==
    LET abs == resolvePath(Cwd, p)
    IN  <<"file://">> \o [i \in 1..Len(abs) |-> encodeToken(abs[i])]

\* new URL(u).pathname of a file: URL (stays percent-encoded)
pathname(u) == IF Len(u) > 0 /\ u[1] = "file://" THEN Tail(u) ELSE u

\* url.fileURLToPath(u), which only the host's resolver uses
fileURLToPath(u) == [i \in 1..Len(pathname(u)) |-> decodeToken(pathname(u)[i])]

\* String.prototype.replace("file://", ""): the first occurrence is removed
replaceFileScheme(s) ==
    LET idx == {i \in 1..Len(s) : s[i] = "file://"}
    IN  IF idx = {} THEN s
        ELSE LET k == CHOOSE i \in idx : \A j \in idx : i <= j
             IN  SubSeq(s, 1, k - 1) \o SubSeq(s, k + 1, Len(s))

-----------------------------------------------------------------------------
(* The host: file system and native resolver (nextResolve) *)

FileIn(dir, ext) == dir \o <<"/", "add">> \o <<ext>>

PlainDir == <<"/", "p">>
SpaceDir == <<"/", "a b">>
PackageDir == <<"/", "node_modules", "/", "pkg">>

FsPaths ==
    {FileIn(d, e) : d \in {PlainDir, SpaceDir, PackageDir}, e \in {".js", ".ts"}}

\* the file systems considered: directories may sit at the paths of PlainDir
FsStates ==
    {f \in [FsPaths -> {"none", "file", "dir"}] :
        \A q \in FsPaths : f[q] = "dir" => SubSeq(q, 1, 2) = PlainDir}

\* fs.promises.stat(p): "none" rejects (ENOENT); "file" and "dir" fulfil
\* with a Stats whose isFile() is true, respectively false
stat(p) == IF p \in DOMAIN fs THEN fs[p] ELSE "none"

Specifiers ==
    { <<".", "/", "add", ".js">>,
      <<".", "/", "add", ".json">>,
      <<"..", "/", "p", "/", "add", ".js">>,
      <<"pkg", "/", "add", ".js">> }

ParentURLs ==
    { Undefined,
      <<"file://", "/", "p", "/", "main", ".ts">>,
      <<"file://", "/", "a%20b", "/", "main", ".ts">> }

isBare(spec) == spec[1] \notin {".", "..", "/", "file://"}

\* the file the native resolver looks for
nativeTarget(spec, parent) ==
    IF isBare(spec)
    THEN <<"/", "node_modules", "/">> \o spec
    ELSE resolvePath(IF parent = Undefined THEN Cwd
                     ELSE dirname(fileURLToPath(parent)), spec)

NoMessage == [text |-> "", path |-> <<>>]

NotCalled ==
    [ok |-> FALSE, url |-> Undefined, format |-> "", name |-> "", code |-> "",
     message |-> NoMessage]

\* everything nextResolve(spec, {parentURL: parent}) can settle to
NativeOutcomes(spec, parent) ==
    LET target == nativeTarget(spec, parent)
        href   == pathToFileURL(target)
        found(msg, u) ==
            [ok |-> FALSE, url |-> u, format |-> "", name |-> "Error",
             code |-> "ERR_MODULE_NOT_FOUND", message |-> msg]
        module == [text |-> "Cannot find module", path |-> target]
    IN  CASE stat(target) = "file" ->
               {[ok |-> TRUE, url |-> href, format |-> "module", name |-> "",
                 code |-> "", message |-> NoMessage]}
          [] stat(target) = "dir" ->
               {[ok |-> FALSE, url |-> href, format |-> "", name |-> "Error",
                 code |-> "ERR_UNSUPPORTED_DIR_IMPORT",
                 message |-> [text |-> "Directory import", path |-> target]]}
          [] OTHER ->
               { found(module, href),
                 found(module, Undefined),
                 found([text |-> "Cannot find module", path |-> <<>>], Undefined),
                 [ok |-> FALSE, url |-> href, format |-> "", name |-> "Error",
                  code |-> "ERR_INVALID_MODULE_SPECIFIER", message |-> module] }
               \cup
               (IF isBare(spec) /\ \A e \in {".js", ".ts"} :
                                      stat(FileIn(PackageDir, e)) = "none"
                THEN {found([text |-> "Cannot find package",
                             path |-> <<spec[1]>>], Undefined)}
                ELSE {})

\* the Error object nextResolve rejected with
errorOf(n) == [name |-> n.name, code |-> n.code, url |-> n.url, message |-> n.message]

\* the object nextResolve fulfilled with
resultOf(n) == [shortCircuit |-> FALSE, url |-> n.url, format |-> n.format]

NoError == [name |-> "", code |-> "", url |-> Undefined, message |-> NoMessage]
NoResult == [shortCircuit |-> FALSE, url |-> Undefined, format |-> ""]
Pending == [type |-> "none", result |-> NoResult, error |-> NoError]
Return(r) == [type |-> "return", result |-> r, error |-> NoError]
Throw(e) == [type |-> "throw", result |-> NoResult, error |-> e]

\* a truthy string: neither undefined nor ""
truthy(s) == s # Undefined /\ Len(s) > 0

\* property access on a plain object: undefined when the key is absent
get(map, key, undef) == IF key \in DOMAIN map THEN map[key] ELSE undef

\* str + x, where x may be undefined
plus(str, x) == str \o (IF x = Undefined THEN UndefinedText ELSE x)

-----------------------------------------------------------------------------
(* src/resolve-ts.js: the error-recovery hook *)

RT_extensionMap ==
    (<<".js">> :> <<".ts">>) @@ (<<".mjs">> :> <<".mts">>) @@ (<<".cjs">> :> <<".cts">>)

RT_moduleFormatMap ==
    (<<".ts">> :> "module-typescript") @@ (<<".mts">> :> "module-typescript")
    @@ (<<".cts">> :> "commonjs-typescript")

\* message.match(ERROR_PATH_REGEXP)?.groups.path; the message reads
\* <text> '<path>' ..., and [^']+ needs a non-empty path
RT_ERROR_PATH_REGEXP(message) ==
    IF message.text \in {"Cannot find package", "Cannot find module"}
       /\ Len(message.path) > 0
    THEN message.path
    ELSE Undefined

\* variant without the check of error.code
RT_getFailedResolvePath_AnyCode(error) ==
    IF error.url # Undefined THEN replaceFileScheme(error.url)
    ELSE RT_ERROR_PATH_REGEXP(error.message)

RT_getFailedResolvePath(error) ==
    IF error.code # "ERR_MODULE_NOT_FOUND" THEN Undefined
    ELSE IF error.url # Undefined THEN replaceFileScheme(error.url)
    ELSE RT_ERROR_PATH_REGEXP(error.message)

\* const tsExt = extensionMap[ext]
RT_tsExt(failed) == get(RT_extensionMap, extname(failed), Undefined)

\* const tsPath = failedSpecifier.slice(0, length - ext.length) + tsExt
RT_tsPath(failed) ==
    plus(slice(failed, Len(failed) - Len(extname(failed))), RT_tsExt(failed))

\* const exists = await stat(tsPath).catch(() => false)
RT_exists(settled) == settled # "none"

\* resolve(specifier, context, nextResolve) up to `await nextResolve(...)`
RT_resolve(spec, parent) ==
    /\ pc = "idle"
    /\ hook' = "resolve-ts"
    /\ specifier' = spec
    /\ parentURL' = parent
    /\ \E n \in NativeOutcomes(spec, parent) : native' = n
    /\ nextCalls' = nextCalls + 1
    /\ pc' = "RT_awaitNext"
    /\ UNCHANGED <<extensionMap, fs, failedSpecifier, extensions, base,
                   candidates, order, probes, outcome>>

\* nextResolve settled: the return of the try block, or the catch block up
\* to `await stat(tsPath)`
RT_resolveNextSettled ==
    /\ pc = "RT_awaitNext"
    /\ IF native.ok
       THEN /\ outcome' = Return(resultOf(native))
            /\ pc' = "done"
            /\ UNCHANGED <<failedSpecifier, extensions, base, candidates, probes>>
       ELSE LET failed == RT_getFailedResolvePath(errorOf(native))
            IN  /\ failedSpecifier' = failed
                /\ IF truthy(failed)
                   THEN /\ base' = slice(failed, Len(failed) - Len(extname(failed)))
                        /\ extensions' = <<RT_tsExt(failed)>>
                        /\ candidates' = <<"pending">>
                        /\ probes' = Append(probes, [path |-> RT_tsPath(failed),
                                                     afterNext |-> nextCalls > 0])
                        /\ pc' = "RT_awaitStat"
                        /\ UNCHANGED outcome
                   ELSE /\ outcome' = Throw(errorOf(native))
                        /\ pc' = "done"
                        /\ UNCHANGED <<extensions, base, candidates, probes>>
    /\ UNCHANGED <<extensionMap, fs, hook, specifier, parentURL, native,
                   nextCalls, order>>

\* stat(tsPath) settled: the rest of the catch block
RT_resolveStatSettled ==
    /\ pc = "RT_awaitStat"
    /\ LET tsPath  == RT_tsPath(failedSpecifier)
           settled == stat(tsPath)
       IN  /\ candidates' = <<settled>>
           /\ order' = Append(order, 1)
           /\ outcome' =
                IF RT_exists(settled)
                THEN Return([shortCircuit |-> TRUE,
                             url |-> pathToFileURL(tsPath),
                             format |-> get(RT_moduleFormatMap,
                                            RT_tsExt(failedSpecifier), "undefined")])
                ELSE Throw(errorOf(native))
    /\ pc' = "done"
    /\ UNCHANGED <<extensionMap, fs, hook, specifier, parentURL, native,
                   nextCalls, failedSpecifier, extensions, base, probes>>

\* resolve as a function of what nextResolve settles to: the try block's
\* return, or the catch block run to its end
RT_settled(n) ==
    IF n.ok THEN Return(resultOf(n))
    ELSE LET failed == RT_getFailedResolvePath(errorOf(n))
         IN  IF truthy(failed) /\ RT_exists(stat(RT_tsPath(failed)))
             THEN Return([shortCircuit |-> TRUE,
                          url |-> pathToFileURL(RT_tsPath(failed)),
                          format |-> get(RT_moduleFormatMap, RT_tsExt(failed),
                                         "undefined")])
             ELSE Throw(errorOf(n))

-----------------------------------------------------------------------------
(* src/unnamed/part_001: the candidate-first hook *)

\* longest candidate list handed to initialize
MaxCandidates == 2

RECURSIVE listsOf(_)
\* the candidate lists of exactly n extensions
listsOf(n) ==
    IF n = 0 THEN {<<>>}
    ELSE {Append(l, e) : l \in listsOf(n - 1), e \in {<<".ts">>, <<".js">>}}

\* `let extensionMap = {}`
EmptyMap == <<>>

\* the table of src/resolve-ts.js in the shape initialize takes:
\* {".js": [".ts"], ".mjs": [".mts"], ".cjs": [".cts"]}
TypedSourceOnly == [e \in DOMAIN RT_extensionMap |-> <<RT_extensionMap[e]>>]

\* what register() may hand to initialize: nothing, a mapping from ".js" to
\* an ordered candidate list such as [".ts", ".js"], or the table above
InitializeData ==
    {[defined |-> FALSE, value |-> EmptyMap]}
    \cup {[defined |-> TRUE, value |-> (<<".js">> :> l)] :
             l \in UNION {listsOf(n) : n \in 0..MaxCandidates}}
    \cup {[defined |-> TRUE, value |-> TypedSourceOnly]}

moduleFormatMap ==
    (<<".mjs">> :> "module") @@ (<<".mts">> :> "module-typescript")
    @@ (<<".cjs">> :> "commonjs") @@ (<<".cts">> :> "commonjs-typescript")
    @@ (<<".js">> :> "module") @@ (<<".ts">> :> "module-typescript")

\* specifier.startsWith("./") || specifier.startsWith("../")
isRelative(spec) ==
    startsWith(spec, <<".", "/">>) \/ startsWith(spec, <<"..", "/">>)

\* parentURL ? new URL(parentURL).pathname : "."
parentPathOf(parent) == IF parent = Undefined THEN <<".">> ELSE pathname(parent)

\* resolveFileWithExtensions: resolvePath(dirname(parentPath), specifierWithoutExt)
resolvedPathWithoutExt(specifierWithoutExt, parentPath) ==
    resolvePath(dirname(parentPath), specifierWithoutExt)

\* variant that takes any settled stat for a match
isFileCandidate_AnySettled(candidate) == candidate # "pending"

\* candidate.status === "fulfilled" && candidate.value.isFile()
isFileCandidate(candidate) == candidate = "file"

\* variant that returns on the first match to have settled
firstFileCandidate_FirstSettled(cands) ==
    LET hits == {k \in 1..Len(order) : isFileCandidate(cands[order[k]])}
    IN  IF hits = {} THEN 0
        ELSE order[CHOOSE k \in hits : \A j \in hits : k <= j]

\* the loop over the settled candidates: the index returned on, 0 for none
firstFileCandidate(cands) ==
    LET hits == {i \in 1..Len(cands) : isFileCandidate(cands[i])}
    IN  IF hits = {} THEN 0 ELSE CHOOSE i \in hits : \A j \in hits : i <= j

\* what resolveFileWithExtensions returns for a candidate index
resolvedOf(path, exts, i) ==
    [shortCircuit |-> TRUE,
     url |-> pathToFileURL(path \o exts[i]),
     format |-> get(moduleFormatMap, exts[i], "undefined")]

\* variant whose pattern lacks the `package` alternative
ERROR_PATH_REGEXP_ModuleOnly(message) ==
    IF message.text = "Cannot find module" /\ Len(message.path) > 0
    THEN message.path
    ELSE Undefined

ERROR_PATH_REGEXP(message) ==
    IF message.text \in {"Cannot find package", "Cannot find module"}
       /\ Len(message.path) > 0
    THEN message.path
    ELSE Undefined

getFailedResolvePath(error) ==
    IF error.code # "ERR_MODULE_NOT_FOUND" THEN Undefined
    ELSE IF error.url # Undefined THEN replaceFileScheme(error.url)
    ELSE ERROR_PATH_REGEXP(error.message)

\* `extensions.map(...)` on undefined
TypeError ==
    [name |-> "TypeError", code |-> "", url |-> Undefined,
     message |-> [text |-> "Cannot read properties of undefined (reading 'map')",
                  path |-> <<>>]]

initialize(extMap) ==
    /\ pc = "idle"
    /\ extensionMap' = IF extMap.defined THEN extMap.value ELSE extensionMap
    /\ UNCHANGED <<fs, hook, pc, specifier, parentURL, native, nextCalls,
                   failedSpecifier, extensions, base, candidates, order, probes,
                   outcome>>

\* resolve(specifier, context, nextResolve) up to its first await: the stats
\* of the candidate-first probe, or nextResolve
resolve(spec, parent) ==
    /\ pc = "idle"
    /\ hook' = "part_001"
    /\ specifier' = spec
    /\ parentURL' = parent
    /\ LET ext == extname(spec)
       IN  IF isRelative(spec) /\ ext \in DOMAIN extensionMap
           THEN LET exts == extensionMap[ext]
                    path == resolvedPathWithoutExt(
                                slice(spec, Len(spec) - Len(ext)),
                                parentPathOf(parent))
                IN  /\ extensions' = exts
                    /\ base' = path
                    /\ candidates' = [i \in 1..Len(exts) |-> "pending"]
                    /\ probes' = probes \o
                          [i \in 1..Len(exts) |->
                              [path |-> path \o exts[i], afterNext |-> nextCalls > 0]]
                    /\ pc' = "awaitFirst"
                    /\ UNCHANGED <<native, nextCalls>>
           ELSE /\ \E n \in NativeOutcomes(spec, parent) : native' = n
                /\ nextCalls' = nextCalls + 1
                /\ pc' = "awaitNext"
                /\ UNCHANGED <<extensions, base, candidates, probes>>
    /\ UNCHANGED <<extensionMap, fs, failedSpecifier, order, outcome>>

\* one of the stat promises handed to Promise.allSettled settles
statSettled(i) ==
    /\ pc \in {"awaitFirst", "awaitFallback"}
    /\ i \in 1..Len(candidates)
    /\ candidates[i] = "pending"
    /\ candidates' = [candidates EXCEPT ![i] = stat(base \o extensions[i])]
    /\ order' = Append(order, i)
    /\ UNCHANGED <<extensionMap, fs, hook, pc, specifier, parentURL, native,
                   nextCalls, failedSpecifier, extensions, base, probes, outcome>>

allSettled == \A i \in 1..Len(candidates) : candidates[i] # "pending"

\* the candidate-first probe settled: short-circuit, or go on to nextResolve
resolveFirstSettled ==
    /\ pc = "awaitFirst"
    /\ allSettled
    /\ LET i == firstFileCandidate(candidates)
       IN  IF i # 0
           THEN /\ outcome' = Return(resolvedOf(base, extensions, i))
                /\ pc' = "done"
                /\ UNCHANGED <<native, nextCalls>>
           ELSE /\ \E n \in NativeOutcomes(specifier, parentURL) : native' = n
                /\ nextCalls' = nextCalls + 1
                /\ pc' = "awaitNext"
                /\ UNCHANGED outcome
    /\ UNCHANGED <<extensionMap, fs, hook, specifier, parentURL,
                   failedSpecifier, extensions, base, candidates, order, probes>>

\* nextResolve settled: the return of the try block, or the catch block up
\* to the stats of resolveFileWithExtensions
resolveNextSettled ==
    /\ pc = "awaitNext"
    /\ IF native.ok
       THEN /\ outcome' = Return(resultOf(native))
            /\ pc' = "done"
            /\ UNCHANGED <<failedSpecifier, extensions, base, candidates, order,
                           probes>>
       ELSE LET failed == getFailedResolvePath(errorOf(native))
                ext    == extname(failed)
            IN  /\ failedSpecifier' = failed
                /\ IF ~truthy(failed)
                   THEN /\ outcome' = Throw(errorOf(native))
                        /\ pc' = "done"
                        /\ UNCHANGED <<extensions, base, candidates, order, probes>>
                   ELSE IF ext \notin DOMAIN extensionMap
                   THEN /\ outcome' = Throw(TypeError)
                        /\ pc' = "done"
                        /\ UNCHANGED <<extensions, base, candidates, order, probes>>
                   ELSE LET exts == extensionMap[ext]
                            path == resolvedPathWithoutExt(
                                        slice(failed, Len(failed) - Len(ext)),
                                        parentPathOf(parentURL))
                        IN  /\ extensions' = exts
                            /\ base' = path
                            /\ candidates' = [i \in 1..Len(exts) |-> "pending"]
                            /\ order' = <<>>
                            /\ probes' = probes \o
                                  [i \in 1..Len(exts) |->
                                      [path |-> path \o exts[i],
                                       afterNext |-> nextCalls > 0]]
                            /\ pc' = "awaitFallback"
                            /\ UNCHANGED outcome
    /\ UNCHANGED <<extensionMap, fs, hook, specifier, parentURL, native, nextCalls>>

\* the fallback probe settled: short-circuit, or rethrow
resolveFallbackSettled ==
    /\ pc = "awaitFallback"
    /\ allSettled
    /\ LET i == firstFileCandidate(candidates)
       IN  outcome' = IF i # 0
                      THEN Return(resolvedOf(base, extensions, i))
                      ELSE Throw(errorOf(native))
    /\ pc' = "done"
    /\ UNCHANGED <<extensionMap, fs, hook, specifier, parentURL, native,
                   nextCalls, failedSpecifier, extensions, base, candidates,
                   order, probes>>

-----------------------------------------------------------------------------
(* The host loader *)

\* the call in flight is over; the loader goes on to the next import
NextImport ==
    /\ pc = "done"
    /\ pc' = "idle"
    /\ hook' = "none"
    /\ specifier' = <<>>
    /\ parentURL' = Undefined
    /\ native' = NotCalled
    /\ nextCalls' = 0
    /\ failedSpecifier' = Undefined
    /\ extensions' = <<>>
    /\ base' = <<>>
    /\ candidates' = <<>>
    /\ order' = <<>>
    /\ probes' = <<>>
    /\ outcome' = Pending
    /\ UNCHANGED <<extensionMap, fs>>

Init ==
    /\ extensionMap = EmptyMap
    /\ fs \in FsStates
    /\ hook = "none"
    /\ pc = "idle"
    /\ specifier = <<>>
    /\ parentURL = Undefined
    /\ native = NotCalled
    /\ nextCalls = 0
    /\ failedSpecifier = Undefined
    /\ extensions = <<>>
    /\ base = <<>>
    /\ candidates = <<>>
    /\ order = <<>>
    /\ probes = <<>>
    /\ outcome = Pending

Next ==
    \/ \E m \in InitializeData : initialize(m)
    \/ \E s \in Specifiers, u \in ParentURLs : RT_resolve(s, u)
    \/ RT_resolveNextSettled
    \/ RT_resolveStatSettled
    \/ \E s \in Specifiers, u \in ParentURLs : resolve(s, u)
    \/ \E i \in 1..Len(candidates) : statSettled(i)
    \/ resolveFirstSettled
    \/ resolveNextSettled
    \/ resolveFallbackSettled
    \/ NextImport

Spec == Init /\ [][Next]_vars

-----------------------------------------------------------------------------
(* Vocabulary of the properties, stated on the file system and the inputs *)

Done == pc = "done"

\* the file at the literal requested path
literal == nativeTarget(specifier, parentURL)
literalStem == slice(literal, Len(literal) - Len(extname(literal)))

\* the candidate extensions configured for an extension in the hook in use
configuredFor(ext) ==
    IF hook = "resolve-ts"
    THEN IF ext \in DOMAIN RT_extensionMap THEN {RT_extensionMap[ext]} ELSE {}
    ELSE IF ext \in DOMAIN extensionMap
         THEN {extensionMap[ext][i] : i \in 1..Len(extensionMap[ext])}
         ELSE {}

\* the configured candidates of the requested file that are regular files
existingCandidates ==
    {c \in configuredFor(extname(literal)) : stat(literalStem \o c) = "file"}

formatOf(ext) ==
    IF hook = "resolve-ts" THEN RT_moduleFormatMap[ext] ELSE moduleFormatMap[ext]

\* nextResolve rejected with ERR_MODULE_NOT_FOUND
notFound == nextCalls = 1 /\ ~native.ok /\ native.code = "ERR_MODULE_NOT_FOUND"

\* ... and the failure names the requested file, in its url or its message
notFoundNamesLiteral ==
    /\ notFound
    /\ \/ native.url = pathToFileURL(literal)
       \/ native.url = Undefined /\ native.message.path = literal

fallbackProbes == {i \in 1..Len(probes) : probes[i].afterNext}

rethrown == outcome = Throw(errorOf(native))

\* the probe of the candidate-first branch finds a regular file
candidateFirstHit ==
    /\ hook = "part_001"
    /\ isRelative(specifier)
    /\ extname(specifier) \in DOMAIN extensionMap
    /\ \E i \in 1..Len(extensionMap[extname(specifier)]) :
          stat(resolvedPathWithoutExt(
                   slice(specifier, Len(specifier) - Len(extname(specifier))),
                   parentPathOf(parentURL))
               \o extensionMap[extname(specifier)][i]) = "file"

-----------------------------------------------------------------------------
(* Properties *)

candidateFirstChoice ==
    LET ext  == extname(specifier)
        stem == resolvedPathWithoutExt(slice(specifier, Len(specifier) - Len(ext)),
                                       parentPathOf(parentURL))
        hits == {i \in 1..Len(extensionMap[ext]) :
                    stat(stem \o extensionMap[ext][i]) = "file"}
        i    == CHOOSE k \in hits : \A j \in hits : k <= j
    IN  [shortCircuit |-> TRUE,
         url |-> pathToFileURL(stem \o extensionMap[ext][i]),
         format |-> moduleFormatMap[extensionMap[ext][i]]]

C2_SingleCandidateResolves ==
    (/\ Done
     /\ stat(literal) = "none"
     /\ nextCalls = 0 \/ notFoundNamesLiteral
     /\ Cardinality(existingCandidates) = 1)
        => \E c \in existingCandidates :
              outcome = Return([shortCircuit |-> TRUE,
                                url |-> pathToFileURL(literalStem \o c),
                                format |-> formatOf(c)])

\* C3: when neither the literal file nor any configured candidate exists, the
\* failure leaving resolve is the native resolver's own failure (stated for a
\* configured extension map).
C3_OriginalFailurePropagates ==
    (/\ Done
     /\ nextCalls = 1
     /\ ~native.ok
     /\ hook = "part_001" => extensionMap # EmptyMap
     /\ stat(literal) = "none"
     /\ \A c \in configuredFor(extname(literal)) : stat(literalStem \o c) = "none")
        => rethrown

\* C4: a native failure of any kind other than ERR_MODULE_NOT_FOUND engages no
\* fallback: no probe follows it, and the same failure is re-raised.
C4_OtherFailuresPassThrough ==
    (nextCalls = 1 /\ ~native.ok /\ native.code # "ERR_MODULE_NOT_FOUND"
     /\ pc \notin {"RT_awaitNext", "awaitNext"})
        => /\ Done
           /\ fallbackProbes = {}
           /\ rethrown

\* C4 witness: such a failure carried a url and a matching message, a
\* candidate file was there to be found, and the failure was re-raised
C4_Witness ==
    /\ Done
    /\ native.code = "ERR_INVALID_MODULE_SPECIFIER"
    /\ native.url # Undefined
    /\ native.message.text = "Cannot find module"
    /\ existingCandidates # {}
    /\ rethrown

\* C5: with the stats issued together and two or more candidates existing as
\* regular files, resolveFileWithExtensions selects the one listed earliest,
\* whatever the order in which the stats settled.
C5_CandidateOrder ==
    LET files == {i \in 1..Len(extensions) : stat(base \o extensions[i]) = "file"}
    IN  (/\ Done
         /\ hook = "part_001"
         /\ Len(order) = Len(extensions)
         /\ Cardinality(files) >= 2)
            => \E i \in files :
                  /\ \A j \in files : i <= j
                  /\ outcome = Return(resolvedOf(base, extensions, i))

\* C5 witness: two different candidates exist, the later-listed one settled
\* first, and the call returned
C5_Witness ==
    /\ Done
    /\ hook = "part_001"
    /\ Len(extensions) = 2
    /\ extensions[1] # extensions[2]
    /\ candidates = <<"file", "file">>
    /\ order = <<2, 1>>
    /\ outcome.type = "return"

\* C6: in both hooks, a fallback success is returned only for a candidate
\* path that is a regular file.
C6_OnlyRegularFiles ==
    (Done /\ outcome.type = "return" /\ outcome.result.shortCircuit)
        => stat(fileURLToPath(outcome.result.url)) = "file"

\* C7: when the extension of the failed path has no entry in the extension
\* map, resolve probes no candidate path and re-raises the original failure.
C7_UnmappedExtension ==
    (/\ Done
     /\ notFound
     /\ truthy(failedSpecifier)
     /\ configuredFor(extname(failedSpecifier)) = {}
     /\ extname(failedSpecifier) \notin
            (IF hook = "resolve-ts" THEN DOMAIN RT_extensionMap
             ELSE DOMAIN extensionMap))
        => /\ fallbackProbes = {}
           /\ rethrown

\* C8: with no configuration handed to initialize (or initialize never
\* called), resolve uses the built-in default mapping, so that a .js
\* specifier whose only file on disk is the .ts one resolves to it.
C8_DefaultMapping ==
    (/\ Done
     /\ hook = "part_001"
     /\ extensionMap = EmptyMap
     /\ extname(literal) = <<".js">>
     /\ notFoundNamesLiteral
     /\ stat(literalStem \o <<".ts">>) = "file")
        => /\ \A e \in DOMAIN RT_extensionMap :
                 RT_extensionMap[e] \in configuredFor(e)
           /\ outcome.type = "return"
           /\ outcome.result.url = pathToFileURL(literalStem \o <<".ts">>)

\* C9: in the candidate-first hook, a relative specifier with a configured
\* candidate that exists as a regular file is answered without invoking
\* nextResolve; for every other specifier nextResolve is invoked exactly once,
\* before any fallback probe.
C9_CandidateFirstSkipsNative ==
    (Done /\ hook = "part_001")
        => IF isRelative(specifier) /\ existingCandidates # {}
           THEN /\ nextCalls = 0
                /\ outcome.type = "return"
                /\ outcome.result.shortCircuit
           ELSE /\ nextCalls = 1
                /\ \A i \in 1..Len(probes) :
                      probes[i].afterNext \/ fallbackProbes = {}
                      \/ \A j \in fallbackProbes : i < j

\* C10: for an ERR_MODULE_NOT_FOUND failure the failed path is the url field
\* without its file:// prefix whenever that field is a string, otherwise the
\* quoted path after "Cannot find module" or "Cannot find package"; when
\* neither gives a path, no probe follows and the failure is re-raised.
C10_FailedPathExtraction ==
    (notFound /\ pc \notin {"RT_awaitNext", "awaitNext"})
        => /\ native.url # Undefined
              => failedSpecifier = SubSeq(native.url, 2, Len(native.url))
           /\ (/\ native.url = Undefined
               /\ native.message.text \in {"Cannot find module", "Cannot find package"}
               /\ native.message.path # <<>>)
              => failedSpecifier = native.message.path
           /\ (native.url = Undefined /\ native.message.path = <<>>)
              => /\ Done
                 /\ fallbackProbes = {}
                 /\ rethrown

\* C10 witness: a not-found failure without url and without a quoted path was
\* re-raised
C10_Witness ==
    /\ Done
    /\ notFound
    /\ native.url = Undefined
    /\ native.message.path = <<>>
    /\ rethrown

\* the actions of the error-recovery hook settle to RT_settled of what
\* nextResolve settled to
RT_settledAgrees ==
    (Done /\ hook = "resolve-ts") => outcome = RT_settled(native)

\* two outcomes of one import, n being what nextResolve settles to: the same
\* file, or the native failure propagated by both
sameOutcome(a, b, n) ==
    \/ a.type = "return" /\ b.type = "return" /\ a.result.url = b.result.url
    \/ a = Throw(errorOf(n)) /\ b = Throw(errorOf(n))

\* C11: for a relative specifier, a parent URL, a file system and the same
\* extension mapping, the candidate-first hook and the error-recovery hook
\* resolve to the same file or both propagate the native failure.  Stated
\* for the imports on which the candidate-first probe found nothing, so that
\* both hooks went on to the same nextResolve failure.
C11_OutcomeEquivalence ==
    (/\ Done
     /\ hook = "part_001"
     /\ isRelative(specifier)
     /\ extensionMap = TypedSourceOnly
     /\ nextCalls = 1
     /\ ~native.ok)
        => sameOutcome(outcome, RT_settled(native), native)

====
